---- MODULE Spec2Model ----
(***************************************************************************)
(* A model of the search core of the artifact chess engine:                *)
(* src/src/search/mod.rs (quiescence, search, aspiration,                  *)
(* iterative_deepening), src/src/search/ordering.rs (history, ordering),   *)
(* src/src/eval/mod.rs (eval) and the go handler of src/src/main.rs.       *)
(*                                                                         *)
(* The board library (move generation, legality, make/unmake, hashing) is  *)
(* an external collaborator.  It is represented by a small abstract game:  *)
(* a configuration is a record [wn, bn, wp, bp, m, t] and a position is a  *)
(* configuration together with the side to move.                           *)
(***************************************************************************)
EXTENDS Integers, Sequences, FiniteSets, TLC

VARIABLES
    board,      \* Board: [cfg, stm, history]
    info,       \* SearchInfo
    stack,      \* activation records of search / quiescence, innermost last
    ret,        \* value returned by the call that returned last
    drv,        \* the command loop, iterative_deepening and aspiration locals
    clock,      \* what the wall clock has been seen to say
    last,       \* observation of the call that returned last
    obs,        \* observations of the current go
    hprobe      \* the history cell exercised by SpecHistory

vars == <<board, info, stack, ret, drv, clock, last, obs, hprobe>>

------------------------------------------------------------------------------
(* Bounds of the model *)

\* deepest root depth iterative_deepening is followed to
MaxRootDepth == 9
\* longest move list of a `position ... moves` command
MaxPreMoves == 4
\* largest depth whose bonus depth*depth SpecHistory feeds to the tables
MaxBonusDepth == 100
\* longest option list of a `go` command SpecGoOptions follows
MaxGoOptions == 3
\* captures in a row the descent of a quiescence search is followed for
MaxCaptures == 2

------------------------------------------------------------------------------
(* Program constants *)

MAX == 1000000
MIN == -1000000
MAX_HISTORY == 300
MIN_HISTORY == -MAX_HISTORY
MAX_KILLERS == 2
MOBILITY == 3
PAWN == 100
KNIGHT == 305
BISHOP == 333
ROOK == 563
QUEEN == 950
TtSize == 1000000
PlyCap == 100

MATERIAL == <<PAWN, KNIGHT, BISHOP, ROOK, QUEEN, 0>>

------------------------------------------------------------------------------
(* Integer helpers with Rust's semantics *)

Abs(x) == IF x < 0 THEN -x ELSE x
Max2(a, b) == IF a > b THEN a ELSE b
Min2(a, b) == IF a < b THEN a ELSE b
Clamp(x, lo, hi) == IF x < lo THEN lo ELSE IF x > hi THEN hi ELSE x
\* i32 division truncates toward zero
TruncDiv(a, b) == IF a >= 0 THEN a \div b ELSE -((-a) \div b)

Put(f, k, v) == (k :> v) @@ f
Get(f, k, dflt) == IF k \in DOMAIN f THEN f[k] ELSE dflt

------------------------------------------------------------------------------
(* Teams and actions *)

Next_team(t) == IF t = "White" THEN "Black" ELSE "White"
TeamIndex(t) == IF t = "White" THEN 0 ELSE 1

\* Option<Action>::None
NoAction == [from |-> -1, to |-> -1, piece |-> -1, info |-> 0]
Act(p, f, t, i) == [from |-> f, to |-> t, piece |-> p, info |-> i]

\* ActionRecord::Action(a) and ActionRecord::Null()
RecAction(a) == [null |-> FALSE, act |-> a]
RecNull == [null |-> TRUE, act |-> NoAction]

\* Option<piece type>: what board.piece_at says of a square
NoPiece == << >>
SomePiece(p) == << p >>

------------------------------------------------------------------------------
(* The abstract game standing for the board library.                       *)
(*   wn, bn : where the white / black knight stands (0 home, 1 out)        *)
(*   wp, bp : how far the white / black rook pawn has advanced (0..2)      *)
(*   m      : material stage                                               *)
(*            0 level, 1 White has taken a pawn with the rook,             *)
(*            2 Black has taken that rook, 3 the white rook has come home  *)
(*   t      : "none", or the side to move is "mate"d or "stale"mated       *)

Cfg(wn, bn, wp, bp, m, t) == [wn |-> wn, bn |-> bn, wp |-> wp, bp |-> bp, m |-> m, t |-> t]
StartCfg == Cfg(0, 0, 0, 0, 0, "none")

\* one pseudo-legal move: the action, the piece on its target square,
\* the configuration it leads to, and whether it leaves the mover's king safe
Mv(a, victim, dest, legal) == [act |-> a, victim |-> victim, dest |-> dest, legal |-> legal]

WhiteMoves(c) ==
    IF c.t # "none" THEN << Mv(Act(5, 4, 5, 0), NoPiece, c, FALSE) >>
    ELSE
       << Mv(Act(1, IF c.wn = 0 THEN 1 ELSE 18, IF c.wn = 0 THEN 18 ELSE 1, 0),
             NoPiece, [c EXCEPT !.wn = 1 - c.wn], TRUE) >>
       \o (IF c.wp < 2
           THEN << Mv(Act(0, 15 + 8 * c.wp, 23 + 8 * c.wp, 0), NoPiece,
                      [c EXCEPT !.wp = c.wp + 1], TRUE) >> ELSE << >>)
       \o (IF c.m = 0
           THEN << Mv(Act(3, 0, 48, 0), SomePiece(0), [c EXCEPT !.m = 1], TRUE) >> ELSE << >>)
       \o (IF c.m = 1
           THEN << Mv(Act(3, 48, 0, 0), NoPiece, [c EXCEPT !.m = 3], TRUE) >> ELSE << >>)
       \o (IF c.bn = 1 /\ c.wn = 1
           THEN << Mv(Act(4, 3, 55, 0), NoPiece, [c EXCEPT !.t = "mate"], TRUE) >> ELSE << >>)
       \o (IF c.m = 2 /\ c.wn = 0
           THEN << Mv(Act(4, 3, 30, 0), NoPiece, [c EXCEPT !.t = "stale"], TRUE) >> ELSE << >>)
       \o << Mv(Act(5, 4, 5, 0), NoPiece, c, FALSE) >>

BlackMoves(c) ==
    IF c.t # "none" THEN << Mv(Act(5, 60, 61, 0), NoPiece, c, FALSE) >>
    ELSE
       << Mv(Act(1, IF c.bn = 0 THEN 57 ELSE 42, IF c.bn = 0 THEN 42 ELSE 57, 0),
             NoPiece, [c EXCEPT !.bn = 1 - c.bn], TRUE) >>
       \o (IF c.bp < 2
           THEN << Mv(Act(0, 55 - 8 * c.bp, 47 - 8 * c.bp, 0), NoPiece,
                      [c EXCEPT !.bp = c.bp + 1], TRUE) >> ELSE << >>)
       \o (IF c.m = 1
           THEN << Mv(Act(3, 56, 48, 0), SomePiece(3), [c EXCEPT !.m = 2], TRUE) >> ELSE << >>)
       \o << Mv(Act(5, 60, 61, 0), NoPiece, c, FALSE) >>

\* Board::list_actions: the pseudo-legal moves of the side to move
ListMoves(b) == IF b.stm = "White" THEN WhiteMoves(b.cfg) ELSE BlackMoves(b.cfg)

\* the side to move stands in check
InCheck(b) == b.cfg.t = "mate"

\* the board-dependent part of eval (material and piece-square tables), White's view
PestoScore(c) ==
    (CASE c.m = 0 -> 0 [] c.m = 1 -> 100 [] c.m = 2 -> -463 [] OTHER -> 100)
    + 20 * c.wn - 15 * c.bn + 12 * c.wp - 10 * c.bp
    + (IF c.wp = 2 /\ c.bn = 1 THEN -45 ELSE 0)
    + (IF c.bp = 2 /\ c.wn = 1 THEN 40 ELSE 0)

\* rules.hash: the Zobrist key of the position
TermCode(t) == CASE t = "none" -> 0 [] t = "mate" -> 1 [] OTHER -> 2
Hash(b) ==
    1 + b.cfg.wn + 2 * b.cfg.bn + 4 * TeamIndex(b.stm) + 8 * (b.cfg.m % 3)
      + 32 * TermCode(b.cfg.t) + 128 * b.cfg.wp + 512 * b.cfg.bp
      + TtSize * (b.cfg.m \div 3)

\* Board::play, Board::play_null: the restore token is the board before the move
Play(b, mv) == [cfg |-> mv.dest, stm |-> Next_team(b.stm),
                history |-> Append(b.history, RecAction(mv.act))]
PlayNull(b) == [cfg |-> b.cfg, stm |-> Next_team(b.stm),
                history |-> Append(b.history, RecNull)]

\* rules.is_legal after a play: the side that has just moved is not in check
IsLegalAfter(mv) == mv.legal
IsLegalAfterNull(b) == ~InCheck(b)

\* Board::game_state, given the legal moves found
GameState(b, legals) ==
    IF Len(legals) > 0 THEN "Ongoing"
    ELSE IF InCheck(b) THEN "Win" ELSE "Draw"

------------------------------------------------------------------------------
(* ordering.rs: history tables *)

history_bonus(depth) == depth * depth

\* the gravity update of one cell
GravityMutNoDecay(v, bonus) == v + Clamp(bonus, MIN_HISTORY, MAX_HISTORY)
Gravity(v, bonus) ==
    LET clamped_bonus == Clamp(bonus, MIN_HISTORY, MAX_HISTORY)
    IN  v + (clamped_bonus - TruncDiv(v * Abs(clamped_bonus), MAX_HISTORY))

HistKey(team, a) == <<TeamIndex(team), a.from, a.to>>
ContKey(prio, previous, team, a) ==
    <<TeamIndex(prio), previous.piece, previous.to, TeamIndex(team), a.piece, a.to>>

update_history(h, team, a, bonus) ==
    Put(h, HistKey(team, a), Gravity(Get(h, HistKey(team, a), 0), bonus))

update_conthist(ch, prio, previous, team, a, bonus) ==
    Put(ch, ContKey(prio, previous, team, a),
        Gravity(Get(ch, ContKey(prio, previous, team, a), 0), bonus))

------------------------------------------------------------------------------
(* eval/mod.rs *)

team_to_move(b) == IF b.stm = "White" THEN 1 ELSE -1

\* Option<(usize, Team)>::None
NoMobility == [n |-> 0, team |-> "none"]

\* the loop `for ply in (0..ply).rev()` of eval: <<white_mobility, black_mobility>>
RECURSIVE MobilityWalk(_, _, _, _)
MobilityWalk(mob, p, wm, bm) ==
    IF p < 0 \/ (wm > 0 /\ bm > 0) THEN <<wm, bm>>
    ELSE LET e == Get(mob, p, NoMobility)
         IN  IF e.team = "White" /\ wm = 0 THEN MobilityWalk(mob, p - 1, e.n, bm)
             ELSE IF e.team = "Black" /\ bm = 0 THEN MobilityWalk(mob, p - 1, wm, e.n)
             ELSE MobilityWalk(mob, p - 1, wm, bm)

eval(b, inf, ply) ==
    LET w == MobilityWalk(inf.mobility, ply - 1, 0, 0)
        mobility_bonus == MOBILITY * (w[1] - w[2])
    IN  (PestoScore(b.cfg) + mobility_bonus) * team_to_move(b)

------------------------------------------------------------------------------
(* search/mod.rs: noisiness; ordering.rs: move ordering *)

\* is_noisy_chess: promotion or en passant, or the target square holds a piece
is_noisy(mv) == (mv.act.piece = 0 /\ mv.act.info >= 1) \/ mv.victim # NoPiece

mvv_lva(mv) ==
    1000
    + (IF mv.act.piece = 0 /\ mv.act.info >= 3
       THEN MATERIAL[(mv.act.info - 2) + 1] - MATERIAL[1] ELSE 0)
    + (IF mv.victim # NoPiece
       THEN MATERIAL[mv.victim[1] + 1] - MATERIAL[mv.act.piece + 1] ELSE 0)

HIGH_PRIORITY == 268435456

get_noisy_history(b, inf, a) == Get(inf.capture_history, HistKey(b.stm, a), 0)

get_quiet_history(b, inf, a, previous, two_ply) ==
    LET hist == Get(inf.history, HistKey(b.stm, a), 0)
        one_ply_conthist ==
            IF previous # NoAction
            THEN Get(inf.conthist, ContKey(Next_team(b.stm), previous, b.stm, a), 0) ELSE 0
        two_ply_conthist ==
            IF two_ply # NoAction
            THEN Get(inf.conthist, ContKey(b.stm, two_ply, b.stm, a), 0) ELSE 0
    IN  hist + one_ply_conthist + two_ply_conthist

get_history(b, inf, mv, previous, two_ply, noisy) ==
    IF noisy THEN get_noisy_history(b, inf, mv.act)
    ELSE get_quiet_history(b, inf, mv.act, previous, two_ply)

KillerAt(inf, slot, ply) == Get(inf.killers[slot], ply, NoAction)

KillerBonus(inf, ply, a) ==
    (IF KillerAt(inf, 0, ply) = a THEN 100 \div 1 ELSE 0)
    + (IF KillerAt(inf, 1, ply) = a THEN 100 \div 2 ELSE 0)

scoreMutNoPriority(b, inf, ply, mv, previous, two_ply, found_best_move) ==
    IF found_best_move # NoAction /\ found_best_move = mv.act THEN HIGH_PRIORITY * 2
    ELSE IF is_noisy(mv)
         THEN mvv_lva(mv) + get_noisy_history(b, inf, mv.act)
         ELSE get_quiet_history(b, inf, mv.act, previous, two_ply)
              + KillerBonus(inf, ply, mv.act)
score(b, inf, ply, mv, previous, two_ply, found_best_move) ==
    IF found_best_move # NoAction /\ found_best_move = mv.act THEN HIGH_PRIORITY * 2
    ELSE IF is_noisy(mv)
         THEN HIGH_PRIORITY + mvv_lva(mv) + get_noisy_history(b, inf, mv.act)
         ELSE get_quiet_history(b, inf, mv.act, previous, two_ply)
              + KillerBonus(inf, ply, mv.act)

\* ScoredAction(act, score)
ScoredAction(mv, sc) == [mv |-> mv, score |-> sc]

\* sort_unstable_by(|a, b| b.1.cmp(&a.1)): descending score; equal scores keep
\* their order (the insertion sort run on short slices)
RECURSIVE InsertDesc(_, _)
InsertDesc(sorted, x) ==
    IF sorted = << >> THEN << x >>
    ELSE IF x.score > Head(sorted).score THEN << x >> \o sorted
    ELSE << Head(sorted) >> \o InsertDesc(Tail(sorted), x)

RECURSIVE SortDesc(_, _)
SortDesc(done, rest) ==
    IF rest = << >> THEN done
    ELSE SortDesc(InsertDesc(done, Head(rest)), Tail(rest))

sort_actions(b, inf, ply, actions, previous, two_ply, found_best_move) ==
    SortDesc(<< >>,
        [i \in 1 .. Len(actions) |->
            ScoredAction(actions[i],
                score(b, inf, ply, actions[i], previous, two_ply, found_best_move))])

sort_qs_actions(actions) ==
    SortDesc(<< >>, [i \in 1 .. Len(actions) |-> ScoredAction(actions[i], mvv_lva(actions[i]))])

\* create_search_info: the reduction tables, (r * 256.) as i32 of
\* base + ln(depth) * ln(index) / divisor, for the indices and depths the model reaches
LmrDepths == 1 .. 12
LmrIndices == 1 .. 8
QuietLmrTable ==
    << <<192, 192, 192, 192, 192, 192, 192, 192, 192, 192, 192, 192>>,
       <<192, 241, 269, 290, 306, 319, 330, 339, 347, 355, 362, 368>>,
       <<192, 269, 315, 347, 373, 393, 410, 425, 439, 451, 461, 471>>,
       <<192, 290, 347, 388, 420, 446, 468, 487, 503, 518, 532, 544>>,
       <<192, 306, 373, 420, 457, 487, 512, 534, 554, 571, 587, 601>>,
       <<192, 319, 393, 446, 487, 520, 549, 573, 595, 614, 631, 647>>,
       <<192, 330, 410, 468, 512, 549, 579, 606, 629, 650, 669, 687>>,
       <<192, 339, 425, 487, 534, 573, 606, 634, 659, 682, 702, 721>> >>
NoisyLmrTable ==
    << <<-64, -64, -64, -64, -64, -64, -64, -64, -64, -64, -64, -64>>,
       <<-64, -23, 0, 17, 31, 41, 51, 58, 65, 72, 77, 82>>,
       <<-64, 0, 38, 65, 86, 103, 118, 130, 141, 151, 160, 168>>,
       <<-64, 17, 65, 99, 126, 147, 166, 181, 195, 208, 219, 229>>,
       <<-64, 31, 86, 126, 157, 182, 203, 221, 237, 252, 265, 277>>,
       <<-64, 41, 103, 147, 182, 209, 233, 253, 271, 288, 302, 315>>,
       <<-64, 51, 118, 166, 203, 233, 259, 281, 300, 318, 334, 348>>,
       <<-64, 58, 130, 181, 221, 253, 281, 304, 325, 344, 361, 376>> >>
quiet_lmr(index, depth) == QuietLmrTable[index][depth]
noisy_lmr(index, depth) == NoisyLmrTable[index][depth]

------------------------------------------------------------------------------
(* SearchInfo and the activation records *)

\* Option<TtEntry>::None
NoEntry == [hash |-> -1, best_move |-> NoAction, score |-> 0, depth |-> 0, bounds |-> "None"]

\* u128::MAX, or start + hard of the latest time-limited go
TimeNever == "never"
TimeDeadline == "deadline"

\* create_search_info; the tables hold their initial value wherever nothing is stored
create_search_info ==
    [ root_depth |-> 0, best_move |-> NoAction,
      history |-> << >>, capture_history |-> << >>, conthist |-> << >>,
      killers |-> << >>, pv_table |-> << >>, plies |-> << >>,
      hashes |-> << >>, mobility |-> << >>, tt |-> << >>,
      nodes |-> 0, score |-> 0, abort |-> FALSE, time_to_abort |-> TimeNever ]

DefaultBoard == [cfg |-> StartCfg, stm |-> "White", history |-> << >>]

\* a call search(depth, ply, alpha, beta, is_pv) or quiescence(ply, alpha, beta) on board b
NewFrame(fn, depth, ply, alpha, beta, is_pv, b, inf) ==
    [ fn |-> fn, origin |-> fn, pc |-> IF fn = "search" THEN "entry" ELSE "q_entry",
      depth |-> depth, ply |-> ply, alpha |-> alpha, beta |-> beta, is_pv |-> is_pv,
      ev |-> 0, hash |-> 0, found_best_move |-> NoAction, actions |-> << >>,
      previous |-> NoAction, two_ply |-> NoAction, scored |-> << >>, i |-> 1,
      best |-> MIN, best_move |-> NoAction, bounds |-> "Upper",
      quiets |-> << >>, noisies |-> << >>, legals |-> << >>, legal_moves |-> 0,
      r |-> 0, saved |-> b,
      \* what the call found on entry
      alpha_in |-> alpha, entry_hashes |-> inf.hashes, entry_board |-> b,
      entry_abort |-> inf.abort, null_tried |-> FALSE ]

Running == Len(stack) > 0
Top == stack[Len(stack)]
Popped == SubSeq(stack, 1, Len(stack) - 1)
SetTop(f) == [stack EXCEPT ![Len(stack)] = f]
PushOn(f, child) == Append(SetTop(f), child)

\* the legal moves of a position, and what game_state says of it
RECURSIVE LegalOnly(_)
LegalOnly(mvs) ==
    IF mvs = << >> THEN << >>
    ELSE (IF Head(mvs).legal THEN << Head(mvs) >> ELSE << >>) \o LegalOnly(Tail(mvs))
TrueGameState(b) == GameState(b, LegalOnly(ListMoves(b)))

\* what is recorded of a call when it returns
Observe(f, v, exit, inf, b) ==
    [ fn |-> f.origin, depth |-> f.depth, ply |-> f.ply, alpha |-> f.alpha_in,
      beta |-> f.beta, is_pv |-> f.is_pv, value |-> v, exit |-> exit,
      abort |-> inf.abort, entry_abort |-> f.entry_abort,
      hashes_in |-> f.entry_hashes, hashes_out |-> inf.hashes,
      board_in |-> f.entry_board, board_out |-> b,
      root_depth |-> inf.root_depth ]

NoObservation ==
    [ fn |-> "none", depth |-> 0, ply |-> 0, alpha |-> 0, beta |-> 0, is_pv |-> FALSE,
      value |-> 0, exit |-> "none", abort |-> FALSE, entry_abort |-> FALSE,
      hashes_in |-> << >>, hashes_out |-> << >>,
      board_in |-> DefaultBoard, board_out |-> DefaultBoard, root_depth |-> 0 ]

\* a return that leaves the board as the last play left it
ReturnMutNoRestore(f, v, exit, inf, b) ==
    /\ stack' = Popped
    /\ ret' = v
    /\ info' = inf
    /\ UNCHANGED board
    /\ last' = Observe(f, v, exit, inf, board)

\* the call f returns v: its record is dropped and the caller resumes
Return(f, v, exit, inf, b) ==
    /\ stack' = Popped
    /\ ret' = v
    /\ info' = inf
    /\ board' = b
    /\ last' = Observe(f, v, exit, inf, b)

\* the call goes on with record g
Continue(g, inf, b) ==
    /\ stack' = SetTop(g)
    /\ info' = inf
    /\ board' = b
    /\ UNCHANGED <<ret, last>>

\* the call plays to board b and calls child
Call(g, child, inf, b) ==
    /\ stack' = PushOn(g, child)
    /\ info' = inf
    /\ board' = b
    /\ UNCHANGED <<ret, last>>

------------------------------------------------------------------------------
(* search/mod.rs: search, lines 172-474 *)

\* line 182: the answers current_time_millis() >= info.time_to_abort can give
ClockAnswers(inf) ==
    IF inf.time_to_abort = TimeNever THEN {FALSE}
    ELSE IF clock.expired THEN {TRUE} ELSE {FALSE, TRUE}

\* line 185: `if info.abort { return 0; }`
AbortedAtEntryMutNever(inf) == FALSE
AbortedAtEntry(inf) == inf.abort

\* line 181: the clock is read
PollsClockMutAnyDepth(depth, inf) == ~inf.abort
PollsClock(depth, inf) == depth >= 4 /\ ~inf.abort

\* lines 201-203: reverse futility pruning
ReverseFutilityCut(f, ev) == ~f.is_pv /\ f.depth <= 3 /\ ev - (100 * f.depth) >= f.beta

\* line 209: the position repeats one of the path or of the game
IsRepetition(inf, hash, ply) ==
    (\E k \in 1 .. Len(inf.hashes) : inf.hashes[k] = hash) /\ ply > 0

\* lines 217-235: the transposition table probe
TtIndex(hash) == hash % TtSize
TtProbe(inf, hash) == Get(inf.tt, TtIndex(hash), NoEntry)
TtInBounds(entry, alpha, beta) ==
    CASE entry.bounds = "Exact" -> TRUE
      [] entry.bounds = "Lower" -> entry.score >= beta
      [] entry.bounds = "Upper" -> entry.score < alpha
      [] OTHER -> FALSE
TtCutoffMutAnyHash(entry, hash, f) ==
    /\ entry.bounds # "None"
    /\ entry.depth >= f.depth /\ TtInBounds(entry, f.alpha, f.beta) /\ ~f.is_pv
TtCutoff(entry, hash, f) ==
    /\ entry.bounds # "None"
    /\ hash = entry.hash
    /\ entry.depth >= f.depth /\ TtInBounds(entry, f.alpha, f.beta) /\ ~f.is_pv
TtHint(entry, hash) ==
    IF entry.bounds # "None" /\ hash = entry.hash THEN entry.best_move ELSE NoAction

\* lines 240-250: the last two records of the board's history
HistoryAction(b, back) ==
    IF Len(b.history) >= back /\ ~b.history[Len(b.history) - back + 1].null
    THEN b.history[Len(b.history) - back + 1].act ELSE NoAction
null_last_move(b) == Len(b.history) >= 1 /\ b.history[Len(b.history)].null

\* lines 161-170: the side to move owns a piece that is neither king nor pawn
\* (in the stalemate configurations the side to move has king and pawns only)
zugzwang_unlikely(b) == b.cfg.t # "stale"

\* line 252
NullMoveTriedMutAfterNull(f, b) == ~f.is_pv /\ f.depth >= 3 /\ zugzwang_unlikely(b)
NullMoveTried(f, b) ==
    ~f.is_pv /\ f.depth >= 3 /\ zugzwang_unlikely(b) /\ ~null_last_move(b)

\* lines 181-238: from the entry of search to the move list
SearchEntry ==
    /\ Running /\ Top.fn = "search" /\ Top.pc = "entry"
    /\ \E seen \in (IF PollsClock(Top.depth, info) THEN ClockAnswers(info) ELSE {clock.expired}) :
       LET f == Top
           inf1 == IF PollsClock(f.depth, info) THEN [info EXCEPT !.abort = seen] ELSE info
           ev == eval(board, inf1, f.ply)
           inf2 == [inf1 EXCEPT !.plies = Put(@, f.ply, ev)]
           hash == Hash(board)
           entry == TtProbe(inf2, hash)
           actions == ListMoves(board)
           inf3 == [inf2 EXCEPT !.mobility =
                       Put(@, f.ply, [n |-> Len(actions), team |-> board.stm])]
       IN  /\ clock' = [clock EXCEPT !.expired = seen]
           /\ UNCHANGED <<drv, obs, hprobe>>
           /\ IF AbortedAtEntry(inf1) THEN Return(f, 0, "abort_entry", inf1, board)
              ELSE IF f.depth <= 0
              THEN Continue([f EXCEPT !.fn = "quiescence", !.pc = "q_entry"], inf1, board)
              ELSE IF ReverseFutilityCut(f, ev) THEN Return(f, ev, "rfp", inf2, board)
              ELSE IF IsRepetition(inf2, hash, f.ply) THEN Return(f, 0, "repetition", inf2, board)
              ELSE IF TtCutoff(entry, hash, f) THEN Return(f, entry.score, "tt", inf2, board)
              ELSE Continue([f EXCEPT !.pc = "null", !.ev = ev, !.hash = hash,
                                      !.found_best_move = TtHint(entry, hash),
                                      !.actions = actions,
                                      !.two_ply = HistoryAction(board, 2),
                                      !.previous = HistoryAction(board, 1)],
                            inf3, board)

\* lines 275-289: the hash is pushed and the moves are ordered
LoopInit(f, inf, b) ==
    [f EXCEPT !.pc = "loop",
              !.scored = sort_actions(b, inf, f.ply, f.actions, f.previous, f.two_ply,
                                      f.found_best_move),
              !.i = 1, !.best = MIN, !.best_move = NoAction, !.bounds = "Upper",
              !.quiets = << >>, !.noisies = << >>, !.legals = << >>, !.legal_moves = 0]
PushHash(inf, hash) == [inf EXCEPT !.hashes = Append(@, hash)]

\* lines 252-260, 270-277: the null move is played, or the move loop is set up
SearchNullMove ==
    /\ Running /\ Top.fn = "search" /\ Top.pc = "null"
    /\ UNCHANGED <<drv, obs, clock, hprobe>>
    /\ LET f == Top
           reduction == 3 + (f.depth \div 5)
           nm_depth == f.depth - reduction
       IN  IF NullMoveTried(f, board) /\ IsLegalAfterNull(board)
           THEN Call([f EXCEPT !.pc = "null_ret", !.saved = board, !.null_tried = TRUE],
                     NewFrame("search", nm_depth, f.ply, -f.beta, -f.beta + 1, f.is_pv,
                              PlayNull(board), info),
                     info, PlayNull(board))
           ELSE Continue(LoopInit(f, info, board), PushHash(info, f.hash), board)

\* lines 260-269, 275-277: the null-move search has returned
SearchNullReturn ==
    /\ Running /\ Top.fn = "search" /\ Top.pc = "null_ret"
    /\ UNCHANGED <<drv, obs, clock, hprobe>>
    /\ LET f == Top
           null_score == -ret
       IN  IF null_score >= f.beta
           THEN Return(f, IF null_score > MAX \div 2 THEN f.beta ELSE null_score,
                       "null", info, f.saved)
           ELSE Continue(LoopInit(f, info, f.saved), PushHash(info, f.hash), f.saved)

\* line 283
root_node(f, inf) == f.depth = inf.root_depth

\* line 308: late move pruning
LateMovePrunedMutEarly(index, depth, is_quiet) == index > 0 /\ is_quiet
LateMovePruned(index, depth, is_quiet) == index > 3 + 2 * (depth * depth) /\ is_quiet

\* lines 312-327: the late move reduction
Reduction(b, inf, f, mv, index) ==
    IF index >= 2
    THEN LET r0 == IF is_noisy(mv) THEN noisy_lmr(index, f.depth)
                   ELSE quiet_lmr(index, f.depth)
             hist == get_history(b, inf, mv, f.previous, f.two_ply, is_noisy(mv))
             r1 == r0 - Clamp(hist, -512, 512)
         IN  Max2(TruncDiv(r1, 256), 0)
    ELSE 0

\* line 330: futility pruning
FutilityPruned(f, inf, is_quiet, r) ==
    ~root_node(f, inf) /\ is_quiet /\ (f.depth - r) <= 8
    /\ f.ev + 300 + (75 * f.depth) <= f.alpha

\* a child search that is told it is on the principal variation whenever its
\* parent is
ChildMutPvInherited(f, depth, alpha, beta, is_pv, b, inf) ==
    NewFrame("search", depth, f.ply + 1, alpha, beta, f.is_pv, b, inf)

Child(f, depth, alpha, beta, is_pv, b, inf) ==
    NewFrame("search", depth, f.ply + 1, alpha, beta, is_pv, b, inf)

\* lines 290-355: one turn of the move loop, up to the first search of the move
SearchMoveLoop ==
    /\ Running /\ Top.fn = "search" /\ Top.pc = "loop"
    /\ UNCHANGED <<drv, obs, clock, hprobe>>
    /\ LET f == Top IN
       IF f.i > Len(f.scored) THEN Continue([f EXCEPT !.pc = "finish"], info, board)
       ELSE
       LET mv == f.scored[f.i].mv IN
       IF ~IsLegalAfter(mv) THEN Continue([f EXCEPT !.i = @ + 1], info, board)
       ELSE
       LET g == [f EXCEPT !.legals = Append(@, mv.act), !.legal_moves = @ + 1]
           index == g.legal_moves - 1
           is_quiet == ~is_noisy(mv)
           r == Reduction(board, info, f, mv, index)
           new_depth == f.depth - 1
           b1 == Play(board, mv)
           inf1 == [info EXCEPT !.nodes = @ + 1]
           h == [g EXCEPT !.r = r, !.saved = board]
       IN  IF LateMovePruned(index, f.depth, is_quiet)
           THEN Continue([g EXCEPT !.i = @ + 1], info, board)
           ELSE IF FutilityPruned(f, info, is_quiet, r)
           THEN Continue([g EXCEPT !.i = @ + 1], info, board)
           ELSE IF r > 0
           THEN Call([h EXCEPT !.pc = "lmr_ret"],
                     Child(f, new_depth - r, -f.alpha - 1, -f.alpha, FALSE, b1, inf1),
                     inf1, b1)
           ELSE IF ~f.is_pv \/ index > 0
           THEN Call([h EXCEPT !.pc = "zw_ret"],
                     Child(f, new_depth, -f.alpha - 1, -f.alpha, FALSE, b1, inf1),
                     inf1, b1)
           ELSE Call([h EXCEPT !.pc = "pv_ret"],
                     Child(f, new_depth, -f.beta, -f.alpha, f.is_pv, b1, inf1),
                     inf1, b1)

\* set_or_push, lines 56-62, on a vector held as a sequence
set_or_push(vec, index, item) ==
    IF Len(vec) > index THEN [vec EXCEPT ![index + 1] = item]
    ELSE IF Len(vec) = index THEN Append(vec, item)
    ELSE vec

\* lines 369-386: the child's line is copied behind the new head
RECURSIVE SplicePv(_, _, _)
SplicePv(dst, src, i) ==
    IF i >= Len(src) THEN dst
    ELSE IF src[i + 1].null THEN set_or_push(dst, i + 1, RecNull)
    ELSE SplicePv(set_or_push(dst, i + 1, src[i + 1]), src, i + 1)

UpdatePv(inf, ply, a) ==
    LET spliced == IF ply + 1 < PlyCap
                   THEN SplicePv(Get(inf.pv_table, ply, << >>),
                                 Get(inf.pv_table, ply + 1, << >>), 0)
                   ELSE Get(inf.pv_table, ply, << >>)
    IN  [inf EXCEPT !.pv_table = Put(@, ply, set_or_push(spliced, 0, RecAction(a)))]

\* `for &quiet in &quiets { update_history(.., -history_bonus(depth)) }`
PenalizeHistoryMutNone(h, team, acts, depth) == h
RECURSIVE PenalizeHistory(_, _, _, _)
PenalizeHistory(h, team, acts, depth) ==
    IF acts = << >> THEN h
    ELSE PenalizeHistory(update_history(h, team, Head(acts), -history_bonus(depth)),
                         team, Tail(acts), depth)

RECURSIVE PenalizeConthist(_, _, _, _, _, _)
PenalizeConthist(ch, prio, previous, team, acts, depth) ==
    IF acts = << >> THEN ch
    ELSE PenalizeConthist(
             update_conthist(ch, prio, previous, team, Head(acts), -history_bonus(depth)),
             prio, previous, team, Tail(acts), depth)

\* lines 414-421: the killers of the ply are rotated
\* a rotation that does not look at the first killer
RotateKillersMutAlways(k, ply, a) ==
    [k EXCEPT ![1] = Put(@, ply, Get(k[0], ply, NoAction)), ![0] = Put(@, ply, a)]
RotateKillersMutNoShift(k, ply, a) == [k EXCEPT ![0] = Put(@, ply, a)]
RotateKillers(k, ply, a) ==
    IF Get(k[0], ply, NoAction) # a
    THEN [k EXCEPT ![1] = Put(@, ply, Get(k[0], ply, NoAction)),
                   ![0] = Put(@, ply, a)]
    ELSE k

\* lines 394-427: the tables after a beta cutoff by move a
CutoffUpdate(inf, f, team, a, is_quiet) ==
    IF is_quiet
    THEN LET h1 == PenalizeHistory(
                       update_history(inf.history, team, a, history_bonus(f.depth)),
                       team, f.quiets, f.depth)
             c1 == IF f.previous # NoAction
                   THEN PenalizeConthist(
                            update_conthist(inf.conthist, Next_team(team), f.previous,
                                            team, a, history_bonus(f.depth)),
                            Next_team(team), f.previous, team, f.quiets, f.depth)
                   ELSE inf.conthist
             c2 == IF f.two_ply # NoAction
                   THEN PenalizeConthist(
                            update_conthist(c1, team, f.two_ply, team, a,
                                            history_bonus(f.depth)),
                            team, f.two_ply, team, f.quiets, f.depth)
                   ELSE c1
         IN  [inf EXCEPT !.history = h1, !.conthist = c2,
                         !.killers = RotateKillers(@, f.ply, a)]
    ELSE [inf EXCEPT !.capture_history =
              PenalizeHistory(update_history(@, team, a, history_bonus(f.depth)),
                              team, f.noisies, f.depth)]

\* lines 357-436: the move has been searched with result score
AfterSearch(f, sc) ==
    LET mv == f.scored[f.i].mv
        a == mv.act
        b == f.saved
        team == b.stm
        is_quiet == ~is_noisy(mv)
        improved == sc > f.best
        raised == improved /\ sc > f.alpha
        inf1 == IF raised /\ f.is_pv THEN UpdatePv(info, f.ply, a) ELSE info
        g == [f EXCEPT !.best = IF improved THEN sc ELSE @,
                       !.best_move = IF improved THEN a ELSE @,
                       !.bounds = IF raised THEN "Exact" ELSE @,
                       !.alpha = IF raised THEN sc ELSE @]
    IN  IF sc >= f.beta
        THEN Continue([g EXCEPT !.bounds = "Lower", !.pc = "finish"],
                      CutoffUpdate(inf1, f, team, a, is_quiet), b)
        ELSE Continue([g EXCEPT !.pc = "loop", !.i = @ + 1,
                                !.quiets = IF is_quiet THEN Append(@, a) ELSE @,
                                !.noisies = IF is_quiet THEN @ ELSE Append(@, a)],
                      inf1, b)

\* lines 353-355: the full-window search of a PV node, or the move is done
PvSearchOrDone(f, sc) ==
    LET index == f.legal_moves - 1
    IN  IF f.is_pv /\ (index = 0 \/ sc > f.alpha)
        THEN Call([f EXCEPT !.pc = "pv_ret"],
                  Child(f, f.depth - 1, -f.beta, -f.alpha, f.is_pv, board, info),
                  info, board)
        ELSE AfterSearch(f, sc)

\* lines 344-348: the reduced search has returned
SearchLmrReturn ==
    /\ Running /\ Top.fn = "search" /\ Top.pc = "lmr_ret"
    /\ UNCHANGED <<drv, obs, clock, hprobe>>
    /\ LET f == Top
           sc == -ret
           new_depth == f.depth - 1
           reduced == new_depth - f.r
       IN  IF sc > f.alpha /\ reduced < new_depth
           THEN Call([f EXCEPT !.pc = "zw_ret"],
                     Child(f, new_depth, -f.alpha - 1, -f.alpha, FALSE, board, info),
                     info, board)
           ELSE PvSearchOrDone(f, sc)

\* lines 347, 350: the null-window search has returned
SearchZwReturn ==
    /\ Running /\ Top.fn = "search" /\ Top.pc = "zw_ret"
    /\ UNCHANGED <<drv, obs, clock, hprobe>>
    /\ PvSearchOrDone(Top, -ret)

\* line 354: the full-window search has returned
SearchPvReturn ==
    /\ Running /\ Top.fn = "search" /\ Top.pc = "pv_ret"
    /\ UNCHANGED <<drv, obs, clock, hprobe>>
    /\ AfterSearch(Top, -ret)

PopHash(inf) == [inf EXCEPT !.hashes = SubSeq(@, 1, Len(@) - 1)]

\* line 457: `if info.abort { return 0; }`
AbortedAtEndMutNever(inf) == FALSE
AbortedAtEnd(inf) == inf.abort

\* lines 459-461
WritesBestMove(f, inf) == root_node(f, inf) /\ f.best_move # NoAction

\* lines 463-469
TtStoreMutKeepDeeper(inf, f) ==
    IF TtProbe(inf, f.hash).depth > f.depth THEN inf
    ELSE [inf EXCEPT !.tt = Put(@, TtIndex(f.hash),
             [hash |-> f.hash, best_move |-> f.best_move, depth |-> f.depth,
              bounds |-> f.bounds, score |-> f.best])]
TtStore(inf, f) ==
    [inf EXCEPT !.tt = Put(@, TtIndex(f.hash),
        [hash |-> f.hash, best_move |-> f.best_move, depth |-> f.depth,
         bounds |-> f.bounds, score |-> f.best])]

\* lines 439-473: after the move loop
SearchFinish ==
    /\ Running /\ Top.fn = "search" /\ Top.pc = "finish"
    /\ UNCHANGED <<drv, obs, clock, hprobe>>
    /\ LET f == Top
           state == GameState(board, f.legals)
           inf1 == IF WritesBestMove(f, info) THEN [info EXCEPT !.best_move = f.best_move]
                   ELSE info
       IN  IF state = "Win" THEN Return(f, MIN + f.ply, "win", PopHash(info), board)
           ELSE IF state = "Draw" THEN Return(f, 0, "draw", PopHash(info), board)
           ELSE IF AbortedAtEnd(info) THEN Return(f, 0, "abort_end", info, board)
           ELSE Return(f, f.best, "end", PopHash(TtStore(inf1, f)), board)

------------------------------------------------------------------------------
(* search/mod.rs: quiescence, lines 101-159 *)

NoisyOnlyMutAll(mvs) == mvs
RECURSIVE NoisyOnly(_)
NoisyOnly(mvs) ==
    IF mvs = << >> THEN << >>
    ELSE (IF is_noisy(Head(mvs)) THEN << Head(mvs) >> ELSE << >>) \o NoisyOnly(Tail(mvs))

\* lines 108-130
QuiescenceEntry ==
    /\ Running /\ Top.fn = "quiescence" /\ Top.pc = "q_entry"
    /\ UNCHANGED <<drv, obs, clock, hprobe>>
    /\ LET f == Top
           stand_pat == eval(board, info, f.ply)
           actions == ListMoves(board)
           inf1 == [info EXCEPT !.mobility =
                       Put(@, f.ply, [n |-> Len(actions), team |-> board.stm])]
       IN  IF stand_pat >= f.beta THEN Return(f, stand_pat, "stand_pat", info, board)
           ELSE Continue([f EXCEPT !.pc = "q_loop", !.ev = stand_pat, !.best = stand_pat,
                                   !.alpha = IF stand_pat > @ THEN stand_pat ELSE @,
                                   !.actions = actions,
                                   !.scored = sort_qs_actions(NoisyOnly(actions)),
                                   !.i = 1],
                         inf1, board)

\* lines 132-143
QuiescenceMoveLoop ==
    /\ Running /\ Top.fn = "quiescence" /\ Top.pc = "q_loop"
    /\ UNCHANGED <<drv, obs, clock, hprobe>>
    /\ LET f == Top IN
       IF f.i > Len(f.scored) THEN Return(f, f.best, "q_end", info, board)
       ELSE
       LET mv == f.scored[f.i].mv
           b1 == Play(board, mv)
           inf1 == [info EXCEPT !.nodes = @ + 1]
       IN  IF ~IsLegalAfter(mv) THEN Continue([f EXCEPT !.i = @ + 1], info, board)
           ELSE Call([f EXCEPT !.pc = "q_ret", !.saved = board],
                     NewFrame("quiescence", 0, f.ply + 1, -f.beta, -f.alpha, FALSE, b1, inf1),
                     inf1, b1)

\* lines 143-158
QuiescenceReturn ==
    /\ Running /\ Top.fn = "quiescence" /\ Top.pc = "q_ret"
    /\ UNCHANGED <<drv, obs, clock, hprobe>>
    /\ LET f == Top
           sc == -ret
           g == [f EXCEPT !.best = IF sc > @ THEN sc ELSE @,
                          !.alpha = IF sc > f.best /\ sc > @ THEN sc ELSE @]
       IN  IF sc >= f.beta THEN Return(f, g.best, "q_cut", info, f.saved)
           ELSE Continue([g EXCEPT !.pc = "q_loop", !.i = @ + 1], info, f.saved)

------------------------------------------------------------------------------
(* main.rs: the command loop; search/mod.rs: iterative_deepening, aspiration *)

\* the positions a `position fen ...` / `position startpos` command loads
FenBoards ==
    { DefaultBoard,
      [cfg |-> Cfg(0, 0, 0, 0, 1, "none"), stm |-> "Black", history |-> << >>],
      [cfg |-> Cfg(1, 1, 0, 0, 0, "mate"), stm |-> "Black", history |-> << >>],
      [cfg |-> Cfg(0, 0, 0, 0, 2, "stale"), stm |-> "Black", history |-> << >>] }

\* main.rs lines 105-110: each move of the command pushes the hash of the position
\* it is played from; the boards and hash lists up to n moves can lead to
RECURSIVE PlayMoves(_, _, _)
PlayMoves(b, hs, n) ==
    { <<b, hs>> } \cup
    (IF n = 0 THEN {}
     ELSE UNION { PlayMoves(Play(b, ListMoves(b)[k]), Append(hs, Hash(b)), n - 1) :
                    k \in { j \in 1 .. Len(ListMoves(b)) : ListMoves(b)[j].legal } })

NoGoObservation ==
    [ completed_depth |-> 0, completed_move |-> NoAction, bestmove |-> NoAction,
      root |-> DefaultBoard, aborted_with |-> << >> ]

\* limit: "time" for SearchLimit::Time, "depth" for SearchLimit::Depth
InitDriver ==
    [ pc |-> "idle", depth |-> 0, max_depth |-> 0, alpha |-> 0, beta |-> 0, delta |-> 0,
      score |-> 0, limit |-> "time" ]

\* UciCommand::Position, main.rs lines 95-111
Position ==
    /\ drv.pc = "idle"
    /\ \E fen \in FenBoards : \E p \in PlayMoves(fen, << >>, MaxPreMoves) :
         /\ board' = p[1]
         /\ info' = [info EXCEPT !.hashes = p[2]]
    /\ UNCHANGED <<stack, ret, drv, clock, last, obs, hprobe>>

\* UciCommand::Go, main.rs lines 27-66, and iterative_deepening lines 558-570
Go ==
    /\ drv.pc = "idle"
    /\ info' = [info EXCEPT !.abort = FALSE, !.nodes = 0,
                            !.killers = [slot \in 0 .. MAX_KILLERS - 1 |-> << >>],
                            !.time_to_abort = TimeDeadline]
    /\ clock' = [expired |-> FALSE]
    /\ drv' = [drv EXCEPT !.pc = "id_loop", !.depth = 1, !.max_depth = PlyCap]
    /\ obs' = [NoGoObservation EXCEPT !.root = board]
    /\ UNCHANGED <<board, stack, ret, last, hprobe>>

\* iterative_deepening lines 572-576 and aspiration lines 518-524
IterationStart ==
    /\ drv.pc = "id_loop"
    /\ IF drv.depth > drv.max_depth
       THEN /\ drv' = [drv EXCEPT !.pc = "go_end"]
            /\ UNCHANGED info
       ELSE /\ info' = [info EXCEPT !.root_depth = drv.depth, !.pv_table = << >>]
            /\ drv' = [drv EXCEPT !.pc = "asp_call", !.delta = 30,
                         !.alpha = IF drv.depth >= 5 THEN info.score - 30 ELSE MIN,
                         !.beta = IF drv.depth >= 5 THEN info.score + 30 ELSE MAX]
    /\ UNCHANGED <<board, stack, ret, clock, last, obs, hprobe>>

\* aspiration line 527: the root search is called
AspirationSearch ==
    /\ drv.pc = "asp_call"
    /\ stack' = << NewFrame("search", drv.depth, 0, drv.alpha, drv.beta, TRUE, board, info) >>
    /\ drv' = [drv EXCEPT !.pc = "asp_wait"]
    /\ UNCHANGED <<board, info, ret, clock, last, obs, hprobe>>

\* aspiration line 532-538: what the window becomes, or "return"
\* a fail-low test without the floor
AspirationFailedLowMutNoFloor(sc, alpha) == sc <= alpha
AspirationFailedLow(sc, alpha) == sc <= alpha /\ sc > MIN
AspirationFailedHigh(sc, beta) == sc >= beta /\ sc < MAX

\* aspiration lines 528-543 and iterative_deepening lines 577-605.
\* drv.score is what aspiration returns; time_up is the answer of `time > soft`; the model follows the loop to MaxRootDepth.
AspirationReturn ==
    /\ drv.pc = "asp_wait" /\ ~Running
    /\ UNCHANGED <<board, stack, ret, clock, last, hprobe>>
    /\ LET sc == ret
           delta2 == IF drv.delta * 2 >= ROOK THEN MAX ELSE drv.delta * 2
       IN  IF info.abort
           THEN /\ drv' = [drv EXCEPT !.pc = "go_end", !.score = 0]
                /\ obs' = [obs EXCEPT !.aborted_with = Append(@, info.best_move)]
                /\ UNCHANGED info
           ELSE IF AspirationFailedLow(sc, drv.alpha)
           THEN /\ drv' = [drv EXCEPT !.pc = "asp_call", !.delta = delta2,
                                      !.alpha = Max2(sc - drv.delta, MIN)]
                /\ UNCHANGED <<info, obs>>
           ELSE IF AspirationFailedHigh(sc, drv.beta)
           THEN /\ drv' = [drv EXCEPT !.pc = "asp_call", !.delta = delta2,
                                      !.beta = Min2(sc + drv.delta, MAX)]
                /\ UNCHANGED <<info, obs>>
           ELSE /\ info' = [info EXCEPT !.score = sc]
                /\ obs' = [obs EXCEPT !.completed_depth = drv.depth,
                                      !.completed_move = info.best_move]
                /\ \E time_up \in (IF drv.limit = "depth" THEN {FALSE}
                                     ELSE IF drv.depth >= MaxRootDepth THEN {TRUE}
                                     ELSE BOOLEAN) :
                      drv' = IF time_up THEN [drv EXCEPT !.pc = "go_end", !.score = sc]
                             ELSE [drv EXCEPT !.pc = "id_loop", !.depth = @ + 1,
                                              !.score = sc]

\* main.rs lines 68-73: `info.best_move.expect(..)`, bestmove, best_move = None
GoEnd ==
    /\ drv.pc = "go_end" /\ drv.limit = "time"
    /\ IF info.best_move = NoAction
       THEN /\ drv' = [drv EXCEPT !.pc = "panic"]
            /\ UNCHANGED <<info, obs>>
       ELSE /\ drv' = [drv EXCEPT !.pc = "done"]
            /\ obs' = [obs EXCEPT !.bestmove = info.best_move]
            /\ info' = [info EXCEPT !.best_move = NoAction]
    /\ UNCHANGED <<board, stack, ret, clock, last, hprobe>>

------------------------------------------------------------------------------
(* The engine: from process start through `position` and one `go` *)

Init ==
    /\ board = DefaultBoard
    /\ info = create_search_info
    /\ stack = << >>
    /\ ret = 0
    /\ drv = InitDriver
    /\ clock = [expired |-> FALSE]
    /\ last = NoObservation
    /\ obs = NoGoObservation
    /\ hprobe = "none"

Next ==
    \/ Position
    \/ Go
    \/ IterationStart
    \/ AspirationSearch
    \/ AspirationReturn
    \/ GoEnd
    \/ SearchEntry
    \/ SearchNullMove
    \/ SearchNullReturn
    \/ SearchMoveLoop
    \/ SearchLmrReturn
    \/ SearchZwReturn
    \/ SearchPvReturn
    \/ SearchFinish
    \/ QuiescenceEntry
    \/ QuiescenceMoveLoop
    \/ QuiescenceReturn

Spec == Init /\ [][Next]_vars

------------------------------------------------------------------------------
(* main.rs lines 75-87: bench, a depth-limited search, after any earlier go *)

\* lines 76-82 and iterative_deepening lines 558-570 with SearchLimit::Depth(9):
\* a bench position is loaded and the search is set up; time_to_abort is not
\* assigned.  The model follows the first position of BENCH, when bench is the
\* first search of the process or comes after a go that ended after depth 1.
Bench ==
    /\ drv.pc = "idle" \/ (drv.pc = "done" /\ obs.completed_depth = 1)
    /\ \E pos \in { b \in FenBoards : TrueGameState(b) = "Ongoing" } :
         /\ board' = pos
         /\ obs' = [NoGoObservation EXCEPT !.root = pos]
    /\ info' = [info EXCEPT !.abort = FALSE, !.nodes = 0,
                            !.killers = [slot \in 0 .. MAX_KILLERS - 1 |-> << >>]]
    /\ drv' = [drv EXCEPT !.pc = "id_loop", !.depth = 1, !.max_depth = 9,
                          !.limit = "depth"]
    /\ UNCHANGED <<stack, ret, clock, last, hprobe>>

\* line 83: `info.best_move.expect("Must have a best move")`
BenchEnd ==
    /\ drv.pc = "go_end" /\ drv.limit = "depth"
    /\ drv' = [drv EXCEPT !.pc = IF info.best_move = NoAction THEN "panic"
                                 ELSE "bench_done"]
    /\ obs' = [obs EXCEPT !.bestmove = info.best_move]
    /\ UNCHANGED <<board, info, stack, ret, clock, last, hprobe>>

NextBench == Next \/ Bench \/ BenchEnd

SpecBench == Init /\ [][NextBench]_vars

------------------------------------------------------------------------------
(* search/mod.rs: the depth and ply of the calls below a root search, for   *)
(* root depths up to the cap of iterative_deepening                         *)

\* iterative_deepening lines 563-576: the root search of some depth 1..=100
InitDescent ==
    /\ board = DefaultBoard
    /\ info = create_search_info
    /\ stack = << >>
    /\ ret = 0
    /\ \E depth \in 1 .. PlyCap :
         drv = [pc |-> "search", root_depth |-> depth, depth |-> depth, ply |-> 0,
                index |-> 0, captures |-> 0]
    /\ clock = [expired |-> FALSE]
    /\ last = NoObservation
    /\ obs = NoGoObservation
    /\ hprobe = "none"

\* the calls a call makes.  "search": search with depth > 0, which writes
\* plies[ply] and mobility[ply] and reads killers[..][ply] (lines 194, 238, 151);
\* "move": its move of the given index, for which the reduction tables are read
\* at [index][depth] when index >= 2 (lines 312-317); "quiescence": a quiescence
\* call past its stand-pat test, which writes mobility[ply] (line 120).
SearchDescends ==
    /\ UNCHANGED <<board, info, stack, ret, clock, last, obs, hprobe>>
    /\ \/ \* lines 290-302: a legal move; the first, the second, the third or the
          \* last of the longest move list of chess
          /\ drv.pc = "search"
          /\ \E index \in {0, 1, 2, 217} : drv' = [drv EXCEPT !.pc = "move", !.index = index]
       \/ \* lines 252-260: the null-move search, at the same ply
          /\ drv.pc = "search" /\ drv.depth >= 3
          /\ drv.depth - (3 + drv.depth \div 5) > 0
          /\ drv' = [drv EXCEPT !.depth = @ - (3 + @ \div 5)]
       \/ \* lines 338-355: the child searches of the move, reduced by r or not
          /\ drv.pc = "move"
          /\ \E r \in (IF drv.index >= 2 THEN {0, 1} ELSE {0}) :
               drv' = [drv EXCEPT !.depth = @ - 1 - r, !.ply = @ + 1, !.index = 0,
                                  !.pc = IF drv.depth - 1 - r > 0 THEN "search"
                                         ELSE "quiescence"]
       \/ \* lines 132-143: a capture in quiescence
          /\ drv.pc = "quiescence" /\ drv.captures < MaxCaptures
          /\ drv' = [drv EXCEPT !.ply = @ + 1, !.captures = @ + 1]

SpecDescent == InitDescent /\ [][SearchDescends]_vars

------------------------------------------------------------------------------
(* The history tables alone: any sequence of updates of one cell *)

ProbeAction == Act(1, 1, 18, 0)
ProbePrevious == Act(1, 57, 42, 0)

\* the bonuses search passes: history_bonus(depth) and its negation
Bonuses == { history_bonus(d) : d \in 1 .. MaxBonusDepth }
           \cup { -history_bonus(d) : d \in 1 .. MaxBonusDepth }

InitHistory ==
    /\ board = DefaultBoard
    /\ info = create_search_info
    /\ stack = << >>
    /\ ret = 0
    /\ drv = [InitDriver EXCEPT !.pc = "tables"]
    /\ clock = [expired |-> FALSE]
    /\ last = NoObservation
    /\ obs = NoGoObservation
    /\ hprobe \in {"history", "capture_history", "conthist"}

UpdateHistoryStep ==
    /\ hprobe = "history"
    /\ \E bonus \in Bonuses :
         info' = [info EXCEPT !.history = update_history(@, "White", ProbeAction, bonus)]
    /\ UNCHANGED <<board, stack, ret, drv, clock, last, obs, hprobe>>

UpdateCaptureHistoryStep ==
    /\ hprobe = "capture_history"
    /\ \E bonus \in Bonuses :
         info' = [info EXCEPT !.capture_history =
                     update_history(@, "White", ProbeAction, bonus)]
    /\ UNCHANGED <<board, stack, ret, drv, clock, last, obs, hprobe>>

UpdateConthistStep ==
    /\ hprobe = "conthist"
    /\ \E bonus \in Bonuses :
         info' = [info EXCEPT !.conthist =
                     update_conthist(@, "Black", ProbePrevious, "White", ProbeAction, bonus)]
    /\ UNCHANGED <<board, stack, ret, drv, clock, last, obs, hprobe>>

NextHistory == UpdateHistoryStep \/ UpdateCaptureHistoryStep \/ UpdateConthistStep

SpecHistory == InitHistory /\ [][NextHistory]_vars

------------------------------------------------------------------------------
(* main.rs lines 27-66: the time limits of a go, for any option list *)

\* option lists naming each option at most once
GoOptionLists ==
    LET kinds == {"WTime", "BTime", "WInc", "BInc", "MoveTime"}
        \* milliseconds a GUI sends
        values == {0, 30, 1000}
    IN  { opts \in UNION { [1 .. n -> [kind : kinds, value : values]] :
                             n \in 0 .. MaxGoOptions } :
            \A i, j \in DOMAIN opts : opts[i].kind = opts[j].kind => i = j }

\* lines 32-59: the body of `for option in options`
ApplyGoOption(t, team, option) ==
    CASE option.kind = "BTime" /\ team = "Black" ->
             [t EXCEPT !.soft_time = @ + option.value \div 40,
                       !.hard_time = @ + option.value \div 9]
      [] option.kind = "BInc" ->
             [t EXCEPT !.soft_time = @ + option.value \div 4]
      [] option.kind = "WTime" /\ team = "White" ->
             [t EXCEPT !.soft_time = @ + option.value \div 40,
                       !.hard_time = @ + option.value \div 9]
      [] option.kind = "WInc" /\ team = "White" ->
             [t EXCEPT !.soft_time = @ + option.value \div 4]
      [] option.kind = "MoveTime" ->
             [t EXCEPT !.soft_time = @ + option.value \div 2,
                       !.hard_time = @ + option.value]
      [] OTHER -> t

InitGoOptions ==
    /\ board \in { DefaultBoard, [DefaultBoard EXCEPT !.stm = "Black"] }
    /\ info = create_search_info
    /\ stack = << >>
    /\ ret = 0
    /\ \E opts \in GoOptionLists :
         drv = [ pc |-> "options", given |-> opts, options |-> opts,
                 soft_time |-> 0, hard_time |-> 0 ]
    /\ clock = [expired |-> FALSE]
    /\ last = NoObservation
    /\ obs = NoGoObservation
    /\ hprobe = "none"

\* one turn of `for option in options`
GoOptionStep ==
    /\ drv.pc = "options" /\ drv.options # << >>
    /\ drv' = [ApplyGoOption(drv, board.stm, Head(drv.options))
                 EXCEPT !.options = Tail(drv.options)]
    /\ UNCHANGED <<board, info, stack, ret, clock, last, obs, hprobe>>

\* lines 62-66: the floor, and iterative_deepening is called with
\* SearchLimit::Time { soft: soft_time, hard: hard_time }
GoCallSearch ==
    /\ drv.pc = "options" /\ drv.options = << >>
    /\ drv' = [drv EXCEPT !.pc = "limit", !.soft_time = IF @ = 0 THEN 300 ELSE @]
    /\ UNCHANGED <<board, info, stack, ret, clock, last, obs, hprobe>>

NextGoOptions == GoOptionStep \/ GoCallSearch

SpecGoOptions == InitGoOptions /\ [][NextGoOptions]_vars

------------------------------------------------------------------------------
(* search/mod.rs lines 517-545: aspiration alone, for any results of the   *)
(* root search                                                             *)

\* scores the root search can return and the previous depth can have left
RootScores == {MIN, -20000, -5000, -1500, -500, -40, 0, 40, 500, 1500, 5000, 20000, MAX}

\* lines 518-524: aspiration is entered at a depth below or at the window threshold
InitAspiration ==
    /\ board = DefaultBoard
    /\ \E previous \in RootScores \ {MIN, MAX} : info = [create_search_info EXCEPT !.score = previous]
    /\ stack = << >>
    /\ ret = 0
    /\ \E depth \in {4, 5} :
         drv = [InitDriver EXCEPT !.pc = "asp_call", !.depth = depth, !.delta = 30,
                    !.alpha = IF depth >= 5 THEN info.score - 30 ELSE MIN,
                    !.beta = IF depth >= 5 THEN info.score + 30 ELSE MAX]
    /\ clock = [expired |-> FALSE]
    /\ last = NoObservation
    /\ obs = NoGoObservation
    /\ hprobe = "none"

\* lines 526-543: one turn of the loop; the root search returns score, and
\* info.abort is set or not
AspirationTurn ==
    /\ drv.pc = "asp_call"
    /\ \E sc \in RootScores, abort \in BOOLEAN :
         LET doubled == drv.delta * 2
             delta == IF doubled >= ROOK THEN MAX ELSE doubled
         IN  /\ ret' = sc
             /\ info' = [info EXCEPT !.abort = abort]
             /\ drv' = IF abort THEN [drv EXCEPT !.pc = "asp_done", !.score = 0]
                       ELSE IF AspirationFailedLow(sc, drv.alpha)
                       THEN [drv EXCEPT !.alpha = Max2(sc - drv.delta, MIN),
                                        !.delta = delta]
                       ELSE IF AspirationFailedHigh(sc, drv.beta)
                       THEN [drv EXCEPT !.beta = Min2(sc + drv.delta, MAX),
                                        !.delta = delta]
                       ELSE [drv EXCEPT !.pc = "asp_done", !.score = sc]
    /\ UNCHANGED <<board, stack, clock, last, obs, hprobe>>

SpecAspiration == InitAspiration /\ [][AspirationTurn]_vars

\* each root search returns: a turn of the loop that can be taken is taken
SpecAspirationFair == SpecAspiration /\ WF_vars(AspirationTurn)

------------------------------------------------------------------------------
(* ordering.rs lines 129-177: sort_actions alone, for any tables, killers  *)
(* and hint                                                                *)

\* a position up to two moves into the game; every history and capture-history
\* cell of its moves at a limit, either continuation history at a limit, any two
\* killers and any hint
InitOrdering ==
    /\ board \in { p[1] : p \in PlayMoves(DefaultBoard, << >>, 2) }
    /\ LET actions == { ListMoves(board)[i].act : i \in DOMAIN ListMoves(board) }
           cells == { HistKey(board.stm, a) : a \in actions }
           one_ply == { ContKey(Next_team(board.stm), HistoryAction(board, 1), board.stm, a) :
                          a \in actions }
           two_ply == { ContKey(board.stm, HistoryAction(board, 2), board.stm, a) :
                          a \in actions }
           limits == {MIN_HISTORY, MAX_HISTORY}
       IN  /\ \E h \in [cells -> limits], cap \in limits,
                 c1 \in limits, c2 \in limits,
                 k0 \in actions \cup {NoAction}, k1 \in actions \cup {NoAction} :
                 info = [create_search_info EXCEPT
                           !.history = h,
                           !.capture_history = [k \in cells |-> cap],
                           !.conthist = [k \in one_ply \cup two_ply |->
                                            IF k \in one_ply THEN c1 ELSE c2],
                           !.killers = << >> @@ (0 :> Put(<< >>, 0, k0))
                                             @@ (1 :> Put(<< >>, 0, k1))]
           /\ \E hint \in actions \cup {NoAction} :
                 drv = [pc |-> "order", ply |-> 0, found_best_move |-> hint,
                        scored |-> << >>]
    /\ stack = << >>
    /\ ret = 0
    /\ clock = [expired |-> FALSE]
    /\ last = NoObservation
    /\ obs = NoGoObservation
    /\ hprobe = "none"

\* search/mod.rs line 277: the moves of the node are scored and sorted
SortActionsStep ==
    /\ drv.pc = "order"
    /\ drv' = [drv EXCEPT !.pc = "sorted",
                 !.scored = sort_actions(board, info, drv.ply, ListMoves(board),
                                         HistoryAction(board, 1), HistoryAction(board, 2),
                                         drv.found_best_move)]
    /\ UNCHANGED <<board, info, stack, ret, clock, last, obs, hprobe>>

SpecOrdering == InitOrdering /\ [][SortActionsStep]_vars

------------------------------------------------------------------------------
(* search/mod.rs lines 275-474: the move loop of one node alone, for any   *)
(* scores of its children                                                  *)

\* the move list of the node: two captures, three quiet moves and a king move
\* into check
NodeMoves ==
    << Mv(Act(3, 0, 48, 0), SomePiece(0), StartCfg, TRUE),
       Mv(Act(1, 1, 16, 0), SomePiece(2), StartCfg, TRUE),
       Mv(Act(1, 1, 18, 0), NoPiece, StartCfg, TRUE),
       Mv(Act(0, 15, 23, 0), NoPiece, StartCfg, TRUE),
       Mv(Act(4, 3, 30, 0), NoPiece, StartCfg, TRUE),
       Mv(Act(5, 4, 5, 0), NoPiece, StartCfg, FALSE) >>

\* lines 187-289: a node one ply below the root has reached its move loop; the
\* history cells of its quiet moves hold a limit or a value between, and one of
\* them may be the first killer of the ply
InitNode ==
    /\ board = [DefaultBoard EXCEPT !.history = << RecAction(Act(1, 57, 42, 0)) >>]
    /\ \E h \in [{ HistKey(board.stm, NodeMoves[i].act) : i \in 3 .. 5 }
                    -> {MIN_HISTORY, 150, 249, MAX_HISTORY}],
          killer \in { NodeMoves[i].act : i \in 3 .. 5 } \cup {NoAction} :
         info = [create_search_info EXCEPT
                   !.history = h, !.root_depth = 10,
                   !.killers = [slot \in 0 .. MAX_KILLERS - 1 |->
                                   IF slot = 0 /\ killer # NoAction
                                   THEN Put(<< >>, 1, killer) ELSE << >>]]
    /\ \E depth \in {2, 9}, alpha \in {0, 1000}, is_pv \in BOOLEAN :
         stack = << LoopInit(
                      [NewFrame("search", depth, 1, alpha, alpha + 1, is_pv, board, info)
                         EXCEPT !.ev = eval(board, info, 1), !.hash = Hash(board),
                                !.actions = NodeMoves,
                                !.two_ply = HistoryAction(board, 2),
                                !.previous = HistoryAction(board, 1)],
                      info, board) >>
    /\ ret = 0
    /\ drv = [InitDriver EXCEPT !.pc = "node"]
    /\ clock = [expired |-> FALSE]
    /\ last = NoObservation
    /\ obs = NoGoObservation
    /\ hprobe = "none"

\* a child call returns some score and leaves the tables as they were
ChildAnswers ==
    /\ Len(stack) = 2 /\ Top.pc = "entry"
    /\ \E answer \in {-2000, 0, 2000} : Return(Top, answer, "answer", info, board)
    /\ UNCHANGED <<drv, obs, clock, hprobe>>

NextNode ==
    \/ SearchMoveLoop
    \/ ChildAnswers
    \/ SearchLmrReturn
    \/ SearchZwReturn
    \/ SearchPvReturn
    \/ SearchFinish

SpecNode == InitNode /\ [][NextNode]_vars

------------------------------------------------------------------------------
(* Properties *)

Range(seq) == { seq[k] : k \in 1 .. Len(seq) }
CellsWithin(t) == \A k \in DOMAIN t : MIN_HISTORY <= t[k] /\ t[k] <= MAX_HISTORY

\* C1: after any sequence of update_history and update_conthist calls whose
\* bonuses are depth*depth or -(depth*depth), depth 1..100, starting from zeroed
\* tables, every cell of history, capture_history and conthist lies in
\* [-300, +300].
HistoryCellsBounded ==
    /\ CellsWithin(info.history)
    /\ CellsWithin(info.capture_history)
    /\ CellsWithin(info.conthist)

\* a continuation-history cell has been driven down to the lower bound
HistoryCellSaturated ==
    \E k \in DOMAIN info.conthist : info.conthist[k] = MIN_HISTORY

\* C2: when iterative_deepening returns, info.best_move (the move `bestmove`
\* prints) is the move of the root search of the most recent depth that
\* completed; a root search of a depth that is aborted later never determines it.
BestMoveOfCompletedDepth ==
    drv.pc = "done" => obs.bestmove = obs.completed_move

\* the go ended by an abort at a depth whose first aspiration search had already
\* replaced the move of the last completed depth
BestMoveOfAbortedDepth ==
    /\ drv.pc = "done" /\ info.abort
    /\ obs.completed_depth = drv.depth - 1
    /\ obs.completed_move # NoAction
    /\ obs.bestmove # obs.completed_move

\* C3: once info.abort is set during a go, no later step of the search of that
\* go writes info.best_move or a transposition-table slot.
AbortFreezesBestMoveAndTt ==
    [][(info.abort /\ drv.pc = "asp_wait")
         => (info'.best_move = info.best_move /\ info'.tt = info.tt)]_vars

\* a root search whose move loop found a move returns after the abort
RootReturnedAfterAbort ==
    /\ last.fn = "search" /\ last.exit = "abort_end" /\ last.abort
    /\ last.ply = 0 /\ last.depth = last.root_depth
    /\ stack = << >> /\ drv.pc = "asp_wait"

\* C4: once info.abort is set, every call of search that returns afterwards
\* returns 0, through whichever exit, and aspiration returns 0.
AbortReturnsZero ==
    /\ (last.fn = "search" /\ last.abort) => last.value = 0
    /\ (drv.pc = "go_end" /\ info.abort) => drv.score = 0

\* a search that was entered before the abort returns through its null-move exit
\* after it
NullExitAfterAbort ==
    last.fn = "search" /\ last.abort /\ ~last.entry_abort /\ last.exit = "null"

\* the hash of the position search was called on was in info.hashes
EnteredOnRepetition(o) == Hash(o.board_in) \in Range(o.hashes_in)

\* C5: every call search(depth, ply, alpha, beta, is_pv) with ply > 0 on a
\* position whose hash is already in info.hashes returns 0, for every depth,
\* window and is_pv.
RepetitionScoresZero ==
    (last.fn = "search" /\ last.ply > 0 /\ EnteredOnRepetition(last))
        => last.value = 0

\* such a call left through reverse futility pruning with the static evaluation
RepetitionScoredByEval ==
    /\ last.fn = "search" /\ last.ply > 0 /\ EnteredOnRepetition(last)
    /\ ~last.abort /\ last.depth >= 1 /\ last.exit = "rfp" /\ last.value # 0

\* C6: for any position and depth >= 1, a search that is not aborted returns a
\* score strictly between MIN and MAX; a node all of whose legal moves are
\* skipped by pruning does not return the initial best = MIN.
ScoreStrictlyInside ==
    (last.fn = "search" /\ last.depth >= 1 /\ ~last.abort)
        => (MIN < last.value /\ last.value < MAX)

\* a node with legal moves finished its move loop with best still MIN
AllMovesPrunedReturnsMin ==
    /\ last.fn = "search" /\ last.depth >= 1 /\ ~last.abort
    /\ last.exit = "end" /\ last.value = MIN
    /\ TrueGameState(last.board_in) = "Ongoing"

MaxOf(S) == CHOOSE x \in S : \A y \in S : y <= x

\* quiescence without a window: the stand-pat value or the best capture
RECURSIVE PlainQuiescence(_, _, _)
PlainQuiescence(b, mob, ply) ==
    LET stand_pat == eval(b, [mobility |-> mob], ply)
        actions == ListMoves(b)
        mob1 == Put(mob, ply, [n |-> Len(actions), team |-> b.stm])
        noisy == LegalOnly(NoisyOnly(actions))
    IN  MaxOf({stand_pat} \cup
              { -PlainQuiescence(Play(b, noisy[k]), mob1, ply + 1) : k \in 1 .. Len(noisy) })

\* search without a window, pruning, reductions or transposition table: the
\* repetition and terminal rules of search, quiescence at depth 0, every legal
\* move searched to depth - 1
RECURSIVE Negamax(_, _, _, _, _)
Negamax(b, hashes, mob, depth, ply) ==
    IF depth <= 0 THEN PlainQuiescence(b, mob, ply)
    ELSE IF Hash(b) \in Range(hashes) /\ ply > 0 THEN 0
    ELSE LET actions == ListMoves(b)
             mob1 == Put(mob, ply, [n |-> Len(actions), team |-> b.stm])
             legal == LegalOnly(actions)
         IN  IF legal = << >> THEN (IF InCheck(b) THEN MIN + ply ELSE 0)
             ELSE MaxOf({ -Negamax(Play(b, legal[k]), Append(hashes, Hash(b)), mob1,
                                   depth - 1, ply + 1) : k \in 1 .. Len(legal) })

\* the root search of an iteration has returned, having been called with [MIN, MAX]
RootReturnedFullWindow ==
    /\ drv.pc = "asp_wait" /\ stack = << >> /\ ~info.abort
    /\ last.fn = "search" /\ last.ply = 0 /\ last.depth = drv.depth
    /\ last.alpha = MIN /\ last.beta = MAX

\* C7: for any position and depth d, search called at the root with window
\* [MIN, MAX] returns the score of a plain negamax of the same tree to depth d
\* with quiescence at depth 0: pruning, reductions and transposition-table
\* cutoffs never change the root score.
RootScoreIsNegamax ==
    RootReturnedFullWindow
        => last.value = Negamax(last.board_in, last.hashes_in, << >>, last.depth, 0)

\* C7, as it holds: at depth 1, on a root with at most six legal moves (so that
\* late move pruning skips none), search called with window [MIN, MAX] returns
\* the score of the plain negamax to depth 1 with quiescence at depth 0.
RootScoreIsNegamaxAtDepthOne ==
    (RootReturnedFullWindow /\ last.depth = 1
        /\ Len(LegalOnly(ListMoves(last.board_in))) <= 6)
        => last.value = Negamax(last.board_in, last.hashes_in, << >>, 1, 0)

\* a depth-1 root search has returned on a position with several legal moves, a
\* capture among them, with a score that came out of a capture sequence below
RootDepthOneSearched ==
    /\ RootReturnedFullWindow /\ last.depth = 1
    /\ Len(LegalOnly(ListMoves(last.board_in))) >= 3
    /\ NoisyOnly(ListMoves(last.board_in)) # << >>
    /\ last.value # eval(last.board_in, [mobility |-> << >>], 0)

\* what the rules say of a position without legal moves, seen from ply p
TerminalScore(b, p) == IF TrueGameState(b) = "Win" THEN MIN + p ELSE 0

\* C8: every call of search with depth >= 1 at ply p on a position without legal
\* moves returns MIN + p on checkmate and 0 on stalemate, for PV and non-PV
\* nodes and any window; no earlier exit returns another value.
TerminalNodeScore ==
    (last.fn = "search" /\ last.depth >= 1 /\ ~last.abort
        /\ TrueGameState(last.board_in) # "Ongoing")
        => last.value = TerminalScore(last.board_in, last.ply)

\* a checkmated position left search through reverse futility pruning
TerminalScoredByEval ==
    /\ last.fn = "search" /\ last.depth >= 1 /\ ~last.abort
    /\ TrueGameState(last.board_in) = "Win"
    /\ last.exit = "rfp" /\ last.value # MIN + last.ply

\* C9: a go on a root position without legal moves does not fail: the driver
\* answers with a move or reports the abort, and the command loop goes on.
GoNeverPanics ==
    TrueGameState(obs.root) # "Ongoing" => drv.pc # "panic"

\* iterative_deepening has returned from a root without legal moves and
\* `expect` found info.best_move to be None
GoOnTerminalRootPanics ==
    /\ drv.pc = "panic" /\ TrueGameState(obs.root) # "Ongoing"
    /\ obs.completed_depth >= 1 /\ info.best_move = NoAction

\* C10: every call of search returns with info.hashes equal to its value on
\* entry, on every return path.
HashesRestored ==
    last.fn = "search" => last.hashes_out = last.hashes_in

\* a search returned through `if info.abort { return 0; }` with its own hash
\* still on info.hashes
HashLeftAfterAbort ==
    /\ last.fn = "search" /\ last.exit = "abort_end"
    /\ last.hashes_out = Append(last.hashes_in, Hash(last.board_in))

SoftLimitAtLeastFloor ==
    drv.pc = "limit" => drv.soft_time >= 300

\* a go whose options give a soft limit between 1 and 299 ms reached the call
SoftLimitBelowFloor ==
    drv.pc = "limit" /\ drv.soft_time > 0 /\ drv.soft_time < 300

\* C13: the go handler computes soft = time/40 + inc/4 (+ movetime/2) and
\* hard = time/9 (+ movetime) from the clock and increment of the side to move
\* only; the opponent's values never change soft or hard, whichever colour moves.
\* (value(kind) is what the option list gives for kind, 0 when it is absent; a
\* sum of 0 is replaced by 300.)
LimitsFromOwnClockOnly ==
    LET value(kind) ==
            IF \E i \in DOMAIN drv.given : drv.given[i].kind = kind
            THEN (CHOOSE o \in Range(drv.given) : o.kind = kind).value
            ELSE 0
        time == IF board.stm = "White" THEN value("WTime") ELSE value("BTime")
        inc == IF board.stm = "White" THEN value("WInc") ELSE value("BInc")
        soft == time \div 40 + inc \div 4 + value("MoveTime") \div 2
    IN  drv.pc = "limit" =>
            /\ drv.soft_time = (IF soft = 0 THEN 300 ELSE soft)
            /\ drv.hard_time = time \div 9 + value("MoveTime")

\* White is to move, go wtime 1000 binc 1000: soft is 1000/40 + 1000/4
OpponentIncrementCounted ==
    /\ drv.pc = "limit" /\ board.stm = "White"
    /\ drv.given = << [kind |-> "WTime", value |-> 1000], [kind |-> "BInc", value |-> 1000] >>
    /\ drv.soft_time = 275 /\ drv.hard_time = 111

\* C14: a quiet beta cutoff by move m at ply p leaves the killers unchanged when
\* killers[0][p] = m and otherwise makes killers[1][p] the old killers[0][p] and
\* killers[0][p] = m; the killers of other plies are untouched, no other step of
\* a search changes a killer, and so the two slots of a ply never hold the same
\* move and slot 1 is empty while slot 0 is.
KillersRotateOnQuietCutoff ==
    /\ [][LET m == Top.scored[Top.i].mv
              p == Top.ply
          IN  (/\ Running /\ Top.fn = "search"
               /\ Top.pc \in {"lmr_ret", "zw_ret", "pv_ret"}
               /\ Len(stack') = Len(stack) /\ Top'.pc = "finish"
               /\ ~is_noisy(m)) =>
                  /\ IF KillerAt(info, 0, p) = m.act
                     THEN \A slot \in {0, 1} :
                              KillerAt(info', slot, p) = KillerAt(info, slot, p)
                     ELSE /\ KillerAt(info', 1, p) = KillerAt(info, 0, p)
                          /\ KillerAt(info', 0, p) = m.act
                  /\ \A q \in 0 .. PlyCap : \A slot \in {0, 1} :
                         q # p => KillerAt(info', slot, q) = KillerAt(info, slot, q)]_vars
    /\ [][(/\ drv.pc # "idle"
           /\ ~(/\ Running /\ Top.fn = "search"
                /\ Top.pc \in {"lmr_ret", "zw_ret", "pv_ret"}
                /\ Len(stack') = Len(stack) /\ Top'.pc = "finish"
                /\ ~is_noisy(Top.scored[Top.i].mv))) =>
              \A q \in 0 .. PlyCap : \A slot \in {0, 1} :
                  KillerAt(info', slot, q) = KillerAt(info, slot, q)]_vars
    /\ [](drv.pc # "idle" =>
            \A q \in 0 .. PlyCap :
                KillerAt(info, 1, q) # NoAction =>
                    /\ KillerAt(info, 0, q) # NoAction
                    /\ KillerAt(info, 0, q) # KillerAt(info, 1, q))

\* a ply whose second quiet cutoff came from another move than its first
KillersRotated ==
    /\ drv.pc # "idle"
    /\ \E q \in 0 .. PlyCap :
        /\ KillerAt(info, 1, q) # NoAction
        /\ KillerAt(info, 0, q) # KillerAt(info, 1, q)

TtStoredAfterMoveLoop ==
    /\ [][(/\ Running /\ Top.fn = "search" /\ Top.pc = "finish"
           /\ ~info.abort /\ GameState(board, Top.legals) = "Ongoing") =>
              LET f == Top
                  hash == Hash(board)
                  bounds == IF f.best >= f.beta THEN "Lower"
                            ELSE IF f.best > f.alpha_in THEN "Exact" ELSE "Upper"
              IN  /\ Len(stack') < Len(stack) /\ ret' = f.best
                  /\ info'.tt = Put(info.tt, hash % TtSize,
                                    [hash |-> hash, best_move |-> f.best_move,
                                     depth |-> f.depth, bounds |-> bounds,
                                     score |-> f.best])]_vars
    /\ [][(/\ Running /\ Top.fn = "search"
           /\ Top.pc \in {"lmr_ret", "zw_ret", "pv_ret"}
           /\ Len(stack') = Len(stack)) =>
              /\ Top'.best = Max2(Top.best, -ret)
              /\ Top'.best_move = IF -ret > Top.best THEN Top.scored[Top.i].mv.act
                                  ELSE Top.best_move]_vars
    /\ [][(/\ Running /\ Top.fn = "search" /\ Top.pc = "loop"
           /\ Len(stack') = Len(stack)) =>
              Top'.best = Top.best /\ Top'.best_move = Top.best_move]_vars
    /\ [](Running /\ Top.fn = "search" /\ Top.pc = "loop" /\ Top.i = 1 =>
              Top.best = MIN /\ Top.best_move = NoAction)

\* a node whose best score fell inside its window has returned and the slot of
\* its hash holds its depth and score with bounds Exact
TtExactStored ==
    /\ last.fn = "search" /\ last.exit = "end"
    /\ last.alpha < last.value /\ last.value < last.beta
    /\ LET slot == Hash(last.board_in) % TtSize
       IN  /\ slot \in DOMAIN info.tt
           /\ info.tt[slot] = [info.tt[slot] EXCEPT !.hash = Hash(last.board_in),
                                  !.depth = last.depth, !.score = last.value,
                                  !.bounds = "Exact"]

\* C17: in aspiration delta starts at 30 and doubles after each failed root
\* search; for depth >= 5 the first window is [info.score - 30, info.score + 30]
\* and otherwise [MIN, MAX]; once delta has reached ROOK the next root search is
\* run with the full window [MIN, MAX].
FullWindowOnceDeltaReachesRook ==
    (drv.pc = "asp_call" /\ drv.delta >= ROOK) => (drv.alpha = MIN /\ drv.beta = MAX)

\* the fifth root search in a row has failed: delta has passed ROOK and the next
\* root search is about to run with a window that is closed on both sides
NarrowWindowAfterDeltaReachedRook ==
    /\ drv.pc = "asp_call" /\ drv.depth = 5 /\ drv.delta = MAX
    /\ MIN < drv.alpha /\ drv.alpha < drv.beta /\ drv.beta < MAX

\* C18: in the list sort_actions returns, for all history, capture-history and
\* continuation-history values within [-300, 300] and any killers, the TT move
\* (when it is in the move list) is first, and every noisy move that is not the
\* TT move precedes every quiet move that is not the TT move; the list holds the
\* moves it was given.
TtMoveThenNoisyThenQuiet ==
    drv.pc = "sorted" =>
        LET s == drv.scored
            hinted(i) == s[i].mv.act = drv.found_best_move
        IN  /\ Len(s) = Len(ListMoves(board))
            /\ \A k \in DOMAIN ListMoves(board) : \E i \in DOMAIN s : s[i].mv = ListMoves(board)[k]
            /\ \A i \in DOMAIN s : hinted(i) => i = 1
            /\ \A i, j \in DOMAIN s :
                 (/\ ~hinted(i) /\ ~hinted(j)
                  /\ is_noisy(s[i].mv) /\ ~is_noisy(s[j].mv)) => i < j

\* a quiet TT move with its history at -300, then a capture with its capture
\* history at -300, then a quiet move with history and both continuation
\* histories at +300 that is both killers
OrderedAgainstHistory ==
    /\ drv.pc = "sorted" /\ Len(drv.scored) >= 3
    /\ drv.scored[1].mv.act = drv.found_best_move /\ ~is_noisy(drv.scored[1].mv)
    /\ info.history[HistKey(board.stm, drv.scored[1].mv.act)] = MIN_HISTORY
    /\ is_noisy(drv.scored[2].mv)
    /\ get_noisy_history(board, info, drv.scored[2].mv.act) = MIN_HISTORY
    /\ ~is_noisy(drv.scored[3].mv)
    /\ drv.scored[3].score = 3 * MAX_HISTORY + 150

\* C19: the ordering score of a quiet move that is not the TT move is
\* history[color][from][to] + conthist(1 ply back)/2 + conthist(2 plies back)/2
\* + killer bonus, where a missing previous move contributes 0 and the bonus is
\* 100 for killers[0][ply] and 50 for killers[1][ply].
QuietScoreHalvesConthist ==
    drv.pc = "sorted" =>
        \A i \in DOMAIN drv.scored :
            LET a == drv.scored[i].mv.act
                previous == HistoryAction(board, 1)
                two_ply == HistoryAction(board, 2)
                conthist_1 == IF previous = NoAction THEN 0
                              ELSE info.conthist[ContKey(Next_team(board.stm), previous,
                                                         board.stm, a)]
                conthist_2 == IF two_ply = NoAction THEN 0
                              ELSE info.conthist[ContKey(board.stm, two_ply, board.stm, a)]
                killer_bonus == (IF info.killers[0][0] = a THEN 100 ELSE 0)
                                + (IF info.killers[1][0] = a THEN 50 ELSE 0)
            IN  (~is_noisy(drv.scored[i].mv) /\ a # drv.found_best_move) =>
                    drv.scored[i].score =
                        info.history[HistKey(board.stm, a)]
                        + TruncDiv(conthist_1, 2) + TruncDiv(conthist_2, 2) + killer_bonus

\* a quiet move that is no killer and not the TT move, with history 300 and the
\* continuation history of the previous move 300 (there is no move two plies
\* back), is scored 600
ConthistCountedInFull ==
    /\ drv.pc = "sorted" /\ Len(board.history) = 1
    /\ \E i \in DOMAIN drv.scored :
         LET a == drv.scored[i].mv.act
         IN  /\ ~is_noisy(drv.scored[i].mv) /\ a # drv.found_best_move
             /\ info.killers[0][0] # a /\ info.killers[1][0] # a
             /\ info.history[HistKey(board.stm, a)] = MAX_HISTORY
             /\ info.conthist[ContKey(Next_team(board.stm), HistoryAction(board, 1),
                                      board.stm, a)] = MAX_HISTORY
             /\ drv.scored[i].score = 2 * MAX_HISTORY

MobilityTermIsTwicePerMove ==
    \A k \in DOMAIN stack :
        LET f == stack[k]
            recorded(team) ==
                { p \in 0 .. f.ply - 1 :
                    /\ p \in DOMAIN info.mobility
                    /\ info.mobility[p].team = team /\ info.mobility[p].n > 0 }
            count(team) ==
                IF recorded(team) = {} THEN 0
                ELSE info.mobility[CHOOSE p \in recorded(team) :
                                       \A q \in recorded(team) : q <= p].n
        IN  (\/ f.fn = "search" /\ f.pc # "entry"
             \/ f.fn = "quiescence" /\ f.pc \in {"q_loop", "q_ret"}) =>
                f.ev = (PestoScore(f.entry_board.cfg) + 2 * (count("White") - count("Black")))
                       * (IF f.entry_board.stm = "White" THEN 1 ELSE -1)

\* a node at ply 1 with Black to move, below a root where White had 4 moves:
\* its eval holds 3 * (4 - 0) for mobility
MobilityCountedThreefold ==
    /\ Running /\ Top.fn = "search" /\ Top.pc = "null" /\ Top.ply = 1
    /\ Top.entry_board.stm = "Black"
    /\ info.mobility[0] = [n |-> 4, team |-> "White"]
    /\ Top.ev = -(PestoScore(Top.entry_board.cfg) + 12)

DepthLimitedSearchNeverAborted ==
    drv.limit = "depth" =>
        /\ ~info.abort
        /\ drv.pc = "bench_done" => obs.completed_depth = drv.max_depth

\* bench after a go whose deadline has passed: depth 4 was aborted at its first
\* poll of the clock and the search of depth 9 ended after depth 3
BenchAbortedByOldDeadline ==
    /\ drv.pc = "bench_done" /\ drv.limit = "depth" /\ drv.max_depth = 9
    /\ info.abort /\ info.time_to_abort = TimeDeadline
    /\ obs.completed_depth = 3

\* C25: during a go with root depths 1..=100 every index into the fixed-size
\* search tables is in range: ply < 100 for mobility, plies, killers[slot] and
\* pv_table in search and in quiescence, and index < 256 and depth < 100 for the
\* quiet_lmr / noisy_lmr lookups.
TableIndicesInRange ==
    /\ drv.pc \in {"search", "quiescence"} => drv.ply < PlyCap
    /\ (drv.pc = "move" /\ drv.index >= 2) => (drv.index < 256 /\ drv.depth < 100)

\* the root search of depth 100 reads the reduction of its third move
LmrLookupAtDepthHundred ==
    drv.pc = "move" /\ drv.root_depth = 100 /\ drv.ply = 0 /\ drv.depth = 100 /\ drv.index = 2

SearchWindowsWellFormed ==
    \A k \in 1 .. Len(stack) :
        LET f == stack[k]
        IN  f.origin = "search" =>
              /\ f.alpha_in < f.beta
              /\ ~f.is_pv => f.beta = f.alpha_in + 1
              /\ f.is_pv =>
                   \/ k = 1 /\ f.ply = 0
                   \/ /\ k > 1
                      /\ stack[k - 1].is_pv
                      /\ f.ply = stack[k - 1].ply + 1
                      /\ f.alpha_in = -stack[k - 1].beta
                      /\ f.beta = -stack[k - 1].alpha

\* a PV child two plies below the root has just been called with a window
\* that is neither null nor the whole range, below a zero-window sibling line
PvChildWithNarrowWindow ==
    /\ Len(stack) >= 3
    /\ Top.origin = "search" /\ Top.pc = "entry" /\ Top.is_pv
    /\ Top.beta > Top.alpha_in + 1
    /\ Top.alpha_in > MIN /\ Top.beta < MAX
    /\ stack[Len(stack) - 1].is_pv /\ stack[Len(stack) - 1].i >= 2

\* C28: the aspiration loop terminates, given that each root search returns:
\* every re-search strictly widens the window on one side within [MIN, MAX],
\* delta takes the values 30, 60, 120, 240, 480 and then MAX, its double stays
\* within i32, and in the end a score is returned.
AspirationTerminates ==
    /\ [](/\ drv.delta \in {30, 60, 120, 240, 480, MAX}
          /\ drv.delta * 2 <= 2147483647
          /\ MIN <= drv.alpha /\ drv.beta <= MAX
          /\ drv.alpha - drv.delta >= -2147483647 - 1
          /\ drv.beta + drv.delta <= 2147483647)
    /\ [][drv'.pc = "asp_call" =>
            \/ drv'.alpha < drv.alpha /\ drv'.beta = drv.beta
            \/ drv'.beta > drv.beta /\ drv'.alpha = drv.alpha]_vars
    /\ <>(drv.pc = "asp_done")

\* aspiration has returned the score of a root search that was run after delta
\* had reached MAX
AspirationReturnedAfterSixthSearch ==
    /\ drv.pc = "asp_done" /\ drv.delta = MAX
    /\ ~info.abort /\ drv.score = ret
    /\ drv.alpha < ret /\ ret < drv.beta

\* C29: once info.abort has been set, the calls that unwind afterwards do not
\* modify history, capture_history, conthist or killers: a score of 0 returned
\* by an aborted child never triggers the updates of a beta cutoff.
TablesFrozenAfterAbort ==
    [][(Running /\ info.abort) =>
          /\ info'.history = info.history
          /\ info'.capture_history = info.capture_history
          /\ info'.conthist = info.conthist
          /\ info'.killers = info.killers]_vars

\* with info.abort set, a node has just taken the 0 of its aborted child for a
\* beta cutoff by a quiet move, which is now its first killer
CutoffByAbortedChild ==
    /\ Running /\ info.abort
    /\ Top.fn = "search" /\ Top.pc = "finish" /\ Top.bounds = "Lower"
    /\ ret = 0 /\ Top.best = 0 /\ Top.beta <= 0
    /\ Top.best_move # NoAction
    /\ KillerAt(info, 0, Top.ply) = Top.best_move

\* C30: at every ply and in every reachable state the two killer slots never
\* hold the same move: killers[0][ply] and killers[1][ply] are distinct moves or
\* at least one of them is None, and killers[1][ply] is Some only if
\* killers[0][ply] is Some.
KillerSlotsDistinct ==
    drv.pc # "idle" =>
        \A ply \in 0 .. PlyCap - 1 :
            LET first == KillerAt(info, 0, ply)
                second == KillerAt(info, 1, ply)
            IN  /\ (first # NoAction /\ second # NoAction) => first # second
                /\ second # NoAction => first # NoAction

\* a node has just been cut off by a quiet move, which is the first killer of
\* its ply, while the second slot of the ply holds another move
QuietCutoffWithBothKillersSet ==
    /\ Running /\ Top.fn = "search" /\ Top.pc = "finish" /\ Top.bounds = "Lower"
    /\ ~info.abort
    /\ Top.best_move # NoAction
    /\ KillerAt(info, 0, Top.ply) = Top.best_move
    /\ KillerAt(info, 1, Top.ply) # NoAction

====
